---- MODULE Spec2Model ----
(***************************************************************************)
(* Realtime session manager (GeminiLiveService, the variant with the       *)
(* liveness flag) together with the environment that drives it: the        *)
(* caller, the browser audio devices and the bidirectional stream.         *)
(* One manager instance serves one connect call, as in the orchestrator,   *)
(* which constructs a new instance for every call.                         *)
(***************************************************************************)
EXTENDS Integers, Sequences, FiniteSets, TLC

\* ------------------------------------------------------------------ bounds
\* Inbound frames delivered on one stream that carry playback parts.
MaxFrames == 2
\* Inbound frames delivered on one stream that carry transcription parts only.
MaxTextFrames == 3
\* Largest value of the playback device clock (outAudioContext.currentTime).
MaxClock == 2
\* Longest history handed to connect.
MaxHistory == 1
\* Inbound frames delivered on a stream whose release may fail.
MaxReleaseFrames == 1
\* Windows of samples delivered by the capture node.
MaxWindows == 3
\* Longest history whose continuity text is built.
MaxPromptHistory == 6
\* Manager instances the orchestrator creates.
MaxInstances == 3
\* Retry timers pending at once.
MaxTimers == 2
\* Turns the orchestrator's history holds.
MaxOrchHistory == 2
\* Deltas an instance's transcript buffer holds.
MaxTranscript == 2
\* Turns the orchestrator's history holds in the call whose transcription
\* frames are followed.
MaxCallHistory == 4
\* Turns of the history a caller hands to connect.
MaxGivenHistory == 3

\* ---------------------------------------------------------------- constants
\* Automatic retries before the orchestrator gives up.
RetryLimit == 3
\* Milliseconds between a failure and its retry.
RetryDelay == 1500

\* ------------------------------------------------------------------ inputs
Roles == {"user", "model"}

\* A transcription delta: a non-empty text, as a sequence of characters.
Deltas == {<<"a">>, <<"b">>}

\* A transcription part of a frame: absent (<<>>) or one delta (<<d>>).
TextParts == {<<>>} \cup {<<d>> : d \in Deltas}

\* Byte lengths of the PCM payload of an audio part; 0 is "no audio part".
\* 3 is not a whole number of 16-bit mono frames.
AudioLens == {2, 3, 4}

\* Frames that carry only transcription parts.
TextFrames ==
  { [input |-> i, output |-> o, turnComplete |-> t, audio |-> 0, interrupted |-> FALSE] :
      i \in TextParts, o \in TextParts, t \in BOOLEAN }

\* Frames that carry only playback parts.
AudioFrames ==
  { [input |-> <<>>, output |-> <<>>, turnComplete |-> FALSE, audio |-> a, interrupted |-> x] :
      a \in {0} \cup AudioLens, x \in BOOLEAN }

\* A frame that carries every kind of part but the interruption marker.
MixedFrames ==
  { [input |-> <<<<"a">>>>, output |-> <<<<"b">>>>, turnComplete |-> TRUE, audio |-> 2,
     interrupted |-> FALSE] }

\* The frames of a session that plays audio.
Frames == AudioFrames \cup MixedFrames

CloseCodes == {1000, 1001, 1006, 1008, 1011}

Turns == { [role |-> r, text |-> d] : r \in Roles, d \in Deltas }

Histories == UNION { [1..n -> Turns] : n \in 0..MaxHistory }

\* The histories whose continuity text is built.
PromptHistories == UNION { [1..n -> Turns] : n \in 0..MaxPromptHistory }

\* The i-th turn of a conversation in which the user and the coach speak in
\* turn.
Spoken(i) ==
  [role |-> IF i % 2 = 1 THEN "user" ELSE "model",
   text |-> IF i % 3 = 0 THEN <<"b">> ELSE <<"a">>]

\* The histories a caller hands to connect.
GivenHistories == { [i \in 1..n |-> Spoken(i)] : n \in 0..MaxGivenHistory }

\* How many turns history.slice(-N) keeps: in the manager with the liveness
\* flag, and in the earlier one.
RecentTurns == 2

RecentTurnsEarlier == 5

\* ------------------------------------------------------------------- state
VARIABLES
  \* fields of GeminiLiveService
  isActive, session, audioContext, outAudioContext, nextStartTime, sources,
  currentInputTranscription, currentOutputTranscription, keepAliveInterval,
  micStream, scriptProcessor,
  \* position of the connect call
  pc,
  \* environment: the stream, the microphone hardware, the playback clock,
  \* every AudioBufferSourceNode created, handleMessage calls suspended at
  \* the decode
  stream, micLive, clock, handles, pending, arrived,
  \* the capture pipeline: the ScriptProcessorNode created by
  \* startMicStreaming, the number of windows it has delivered, the
  \* sessionPromise.then callbacks not yet run, the windows passed to
  \* sendRealtimeInput, the windows discarded
  captureNode, windows, thens, sentWindows, droppedWindows,
  \* the history array handed to connect and the continuity text built
  \* from it
  callerHistory, memoryPrompt,
  \* the orchestrator (App): its refs and state, the pending retry timers,
  \* every manager instance it has created, whether control is inside the
  \* status callback of a connect call that is starting
  retryCount, isUserEndingCall, isCalling, callStatus, errorMessage, history, historyRef,
  currentSpeech, geminiService, timers, instances, reentering,
  \* the key panel of the start screen: the isKeyMissing state, whether
  \* process.env.API_KEY holds a key, whether window.aistudio exists
  isKeyMissing, apiKey, aistudio,
  \* whether checkKey waits for hasSelectedApiKey's answer, whether
  \* handleOpenKeySelector waits for the selection dialog to close
  checkingKey, selectingKey,
  \* the instances whose connect call has rejected while handleStartCall's
  \* catch clause has not run yet, in the order of the rejections; the
  \* instances whose connect call is on the stack, below a callback that is
  \* returning, innermost first
  rejected, unwinding,
  \* observation of the orchestrator: retries armed since the counter was
  \* reset, whether the user has ended the call, what the last step was
  armed, userEnded, appLast,
  \* observation: callbacks invoked by the last step, and what the step was
  emitted, last,
  \* history variables used by the properties
  recv, turns, finalized, stopped, stoppedInConnect, intrAt

mgrVars == <<isActive, session, audioContext, outAudioContext, nextStartTime, sources,
             currentInputTranscription, currentOutputTranscription, keepAliveInterval,
             micStream, scriptProcessor>>
envVars == <<pc, stream, micLive, clock, handles, pending, arrived>>
obsVars == <<emitted, last, recv, turns, finalized, stopped, stoppedInConnect, intrAt>>
envVarsButHandles == <<pc, stream, micLive, clock, pending, arrived>>
capVars == <<captureNode, windows, thens, sentWindows, droppedWindows>>
promptVars == <<callerHistory, memoryPrompt>>
orchVars == <<retryCount, isUserEndingCall, isCalling, callStatus, errorMessage, history,
              historyRef, currentSpeech,
              geminiService, timers, instances, reentering, isKeyMissing, apiKey,
              aistudio, checkingKey, selectingKey, rejected, unwinding, armed, userEnded,
              appLast>>
\* What no step of a session touches.
outerVars == <<promptVars, orchVars>>
vars == <<mgrVars, envVars, capVars, obsVars, outerVars>>

\* ---------------------------------------------------------------- helpers
Max(a, b) == IF a >= b THEN a ELSE b

Status(s) == [cb |-> "status", status |-> s]

Transcript(r, t, c) == [cb |-> "transcript", role |-> r, text |-> t, isComplete |-> c]

Suspended == {"resume1", "resume2", "getUserMedia", "handshake"}

\* A constructed instance and its environment.
InitSession ==
  /\ isActive = FALSE
  /\ session = FALSE
  /\ audioContext = "null"
  /\ outAudioContext = "null"
  /\ nextStartTime = 0
  /\ sources = {}
  /\ currentInputTranscription = <<>>
  /\ currentOutputTranscription = <<>>
  /\ keepAliveInterval = FALSE
  /\ micStream = FALSE
  /\ scriptProcessor = FALSE
  /\ pc = "idle"
  /\ stream = "none"
  /\ micLive = FALSE
  /\ clock = 0
  /\ handles = <<>>
  /\ pending = <<>>
  /\ arrived = 0
  /\ captureNode = FALSE
  /\ windows = 0
  /\ thens = <<>>
  /\ sentWindows = <<>>
  /\ droppedWindows = {}
  /\ emitted = <<>>
  /\ last = [op |-> "init"]
  /\ recv = [r \in Roles |-> <<>>]
  /\ turns = 0
  /\ finalized = [r \in Roles |-> <<>>]
  /\ stopped = FALSE
  /\ stoppedInConnect = FALSE
  /\ intrAt = 0

\* The empty current-speech slot.
NoSpeech == [role |-> <<>>, text |-> <<>>]

\* The orchestrator's call state when the page has loaded.
InitCall ==
  /\ retryCount = 0
  /\ isUserEndingCall = FALSE
  /\ isCalling = FALSE
  /\ callStatus = "idle"
  /\ errorMessage = FALSE
  /\ history = <<>>
  /\ historyRef = <<>>
  /\ currentSpeech = NoSpeech
  /\ geminiService = 0
  /\ timers = <<>>
  /\ instances = <<>>
  /\ reentering = FALSE
  /\ armed = 0
  /\ userEnded = FALSE
  /\ appLast = [op |-> "init", inst |-> 0, cause |-> 0, connects |-> 0,
                retries |-> 0, tornDown |-> 0, afterEnd |-> FALSE, passed |-> <<>>,
                cbs |-> <<>>, raised |-> FALSE]
  /\ rejected = <<>>
  /\ unwinding = <<>>

\* The orchestrator when the page has loaded with a key in the environment
\* and without window.aistudio: checkKey has run to its end and left
\* isKeyMissing false.
InitApp ==
  /\ InitCall
  /\ apiKey = TRUE
  /\ aistudio = FALSE
  /\ isKeyMissing = FALSE
  /\ checkingKey = FALSE
  /\ selectingKey = FALSE

\* The orchestrator when the page has loaded without a key in the
\* environment. Without window.aistudio checkKey has run to its end and set
\* isKeyMissing; with it checkKey waits for hasSelectedApiKey's answer.
InitAppKeyless ==
  /\ InitCall
  /\ apiKey = FALSE
  /\ aistudio \in BOOLEAN
  /\ isKeyMissing = ~aistudio
  /\ checkingKey = aistudio
  /\ selectingKey = FALSE

\* The session specifications do not look into the history: connect is
\* given its history as an input.
Init ==
  /\ InitSession
  /\ callerHistory = <<>>
  /\ memoryPrompt = <<>>
  /\ InitApp


\* -------------------------------------------------------- continuity text
Min(a, b) == IF a <= b THEN a ELSE b

\* Variant: the first n turns are taken.
SliceFront(h, n) == SubSeq(h, 1, Min(n, Len(h)))

\* history.slice(-n): the last n elements, all of them when there are fewer.
Slice(h, n) == SubSeq(h, Max(Len(h) - n, 0) + 1, Len(h))

\* Variant: history.splice(-n), which removes from the array what it returns.
AfterSplice(h, n) == SubSeq(h, 1, Max(Len(h) - n, 0))

\* The array on which slice(-n), map and join were called: they build new
\* values and leave their receiver as it is.
AfterSlice(h, n) == h

\* ts.join(sep), for a sequence of token sequences.
RECURSIVE Join(_, _)
Join(ts, sep) ==
  IF ts = <<>> THEN <<>>
  ELSE IF Len(ts) = 1 THEN ts[1]
  ELSE ts[1] \o <<sep>> \o Join(Tail(ts), sep)

\* memoryPrompt of the manager with the liveness flag: the texts of the
\* recent turns joined by ' | ' inside the refresh notice, or ''.
MemoryPrompt(h) ==
  LET recent == Slice(h, RecentTurns)
  IN IF Len(h) > 0
       THEN <<"[SYSTEM">> \o Join([i \in 1..Len(recent) |-> recent[i].text], "|") \o <<"]">>
       ELSE <<>>

\* memoryPrompt of the earlier manager: one 'User: text' or 'Coach: text'
\* line per recent turn inside the continuation notice, or ''.
MemoryPromptEarlier(h) ==
  LET recent == Slice(h, RecentTurnsEarlier)
      line(t) == <<IF t.role = "user" THEN "User:" ELSE "Coach:">> \o t.text
  IN IF Len(h) > 0
       THEN <<"CONTINUATION">> \o Join([i \in 1..Len(recent) |-> line(recent[i])], "nl")
              \o <<"Pick up">>
       ELSE <<>>

\* connect builds the continuity text from the history it was given.
BuildMemoryPrompt ==
  /\ last.op = "init"
  /\ memoryPrompt' = MemoryPrompt(callerHistory)
  /\ callerHistory' = AfterSlice(callerHistory, RecentTurns)
  /\ emitted' = <<>>
  /\ last' = [op |-> "memoryPrompt", turns |-> RecentTurns]
  /\ UNCHANGED <<mgrVars, envVars, capVars, orchVars,
                 recv, turns, finalized, stopped, stoppedInConnect, intrAt>>

\* The same in the earlier manager.
BuildMemoryPromptEarlier ==
  /\ last.op = "init"
  /\ memoryPrompt' = MemoryPromptEarlier(callerHistory)
  /\ callerHistory' = AfterSlice(callerHistory, RecentTurnsEarlier)
  /\ emitted' = <<>>
  /\ last' = [op |-> "memoryPrompt", turns |-> RecentTurnsEarlier]
  /\ UNCHANGED <<mgrVars, envVars, capVars, orchVars,
                 recv, turns, finalized, stopped, stoppedInConnect, intrAt>>

\* ------------------------------------------------------------ audio codec
\* decodeAudioData(bytes, ctx, sampleRate, channelCount) on a payload of
\* `len` bytes: a decode error unless len is a whole number of frames of
\* 2 * channels bytes, else a buffer whose duration is its frame count
\* (time is counted in frame periods).
decodeAudioData(len, channels) ==
  IF len % (2 * channels) # 0
    THEN [ok |-> FALSE, duration |-> 0]
    ELSE [ok |-> TRUE, duration |-> len \div (2 * channels)]

\* ------------------------------------------------------------- the manager
\* s.stop() on every member of this.sources.
StopSources(hs, srcs) ==
  [i \in DOMAIN hs |-> IF i \in srcs THEN [hs[i] EXCEPT !.st = "stopped"] ELSE hs[i]]

\* Variant: stopAll drops the session handle without closing the stream.
StreamKept == stream

\* What session.close() in stopAll does to the stream.
StreamAfterStop == IF session /\ stream = "open" THEN "closing" ELSE stream

\* Variant: the stopAll of the earliest manager, which knows no liveness
\* flag, capture node field or microphone stream field.
stopAllEarliest ==
  /\ keepAliveInterval' = FALSE
  /\ handles' = StopSources(handles, sources)
  /\ sources' = {}
  /\ session' = FALSE
  /\ audioContext' = IF audioContext = "null" THEN "null" ELSE "closed"
  /\ outAudioContext' = IF outAudioContext = "null" THEN "null" ELSE "closed"
  /\ UNCHANGED <<isActive, scriptProcessor, micStream, micLive>>

\* stopAll(), except for the stream: every field it assigns and every
\* device it releases.
stopAll ==
  /\ isActive' = FALSE
  /\ keepAliveInterval' = FALSE
  /\ handles' = StopSources(handles, sources)
  /\ sources' = {}
  /\ scriptProcessor' = FALSE
  /\ micLive' = IF micStream THEN FALSE ELSE micLive
  /\ micStream' = FALSE
  /\ session' = FALSE
  /\ audioContext' = IF audioContext = "null" THEN "null" ELSE "closed"
  /\ outAudioContext' = IF outAudioContext = "null" THEN "null" ELSE "closed"

\* Variant: the catch block of the earlier managers, which report 'error'
\* and let connect return normally.
CatchResolves(before) ==
  /\ UNCHANGED isActive
  /\ emitted' = before \o <<Status("error")>>
  /\ pc' = "done"

\* The catch block of connect: the flag is cleared, 'error' is reported and
\* the promise is rejected. `before` are the callbacks the try block made.
Catch(before) ==
  /\ isActive' = FALSE
  /\ emitted' = before \o <<Status("error")>>
  /\ pc' = "failed"

\* Variant: the first status of the earliest manager, which takes no history.
InitialStatusEarliest(historyLen) == "connecting"

\* The status connect reports first.
InitialStatus(historyLen) == IF historyLen > 0 THEN "reconnecting" ELSE "connecting"

\* Variant: connect goes on without looking at the key.
MissingKeyIgnored(hasKey) == FALSE

\* if (!apiKey) throw
MissingKey(hasKey) == ~hasKey

\* connect, up to its first suspension (await audioContext.resume()).
Connect(past, hasKey) ==
  /\ pc = "idle"
  /\ LET first == <<Status(InitialStatus(Len(past)))>>
     IN IF MissingKey(hasKey)
          THEN /\ Catch(first)
               /\ UNCHANGED <<audioContext, outAudioContext>>
          ELSE /\ isActive' = TRUE
               /\ emitted' = first
               /\ audioContext' = "suspended"
               /\ outAudioContext' = "suspended"
               /\ pc' = "resume1"
  /\ last' = [op |-> "connect", history |-> Len(past), hasKey |-> hasKey]
  /\ UNCHANGED <<session, nextStartTime, sources, currentInputTranscription,
                 currentOutputTranscription, keepAliveInterval, micStream, scriptProcessor,
                 stream, micLive, clock, handles, pending, arrived,
                 recv, turns, finalized, stopped, stoppedInConnect, intrAt>>
  /\ UNCHANGED capVars
  /\ UNCHANGED outerVars

\* A context's state once a resume() on it has settled successfully.
Resumed(ctx) == IF ctx = "suspended" THEN "running" ELSE ctx

\* await this.audioContext.resume() settles.
ResumeIn(ok) ==
  /\ pc = "resume1"
  /\ IF ok
       THEN /\ audioContext' = Resumed(audioContext)
            /\ pc' = "resume2"
            /\ emitted' = <<>>
            /\ UNCHANGED isActive
       ELSE /\ Catch(<<>>)
            /\ UNCHANGED audioContext
  /\ last' = [op |-> "resumeIn"]
  /\ UNCHANGED <<session, outAudioContext, nextStartTime, sources, currentInputTranscription,
                 currentOutputTranscription, keepAliveInterval, micStream, scriptProcessor,
                 stream, micLive, clock, handles, pending, arrived,
                 recv, turns, finalized, stopped, stoppedInConnect, intrAt>>
  /\ UNCHANGED capVars
  /\ UNCHANGED outerVars

\* await this.outAudioContext.resume() settles; on success getUserMedia is
\* requested. What this does to the session.
SecondResume(ok) ==
  /\ pc = "resume2"
  /\ IF ok
       THEN /\ outAudioContext' = Resumed(outAudioContext)
            /\ pc' = "getUserMedia"
            /\ emitted' = <<>>
            /\ UNCHANGED isActive
       ELSE /\ Catch(<<>>)
            /\ UNCHANGED outAudioContext
  /\ last' = [op |-> "resumeOut"]
  /\ UNCHANGED <<session, audioContext, nextStartTime, sources, currentInputTranscription,
                 currentOutputTranscription, keepAliveInterval, micStream, scriptProcessor,
                 stream, micLive, clock, handles, pending, arrived,
                 recv, turns, finalized, stopped, stoppedInConnect, intrAt>>
  /\ UNCHANGED capVars

\* The step in the specifications that give connect its history as a bare
\* input.
ResumeOut(ok) ==
  /\ SecondResume(ok)
  /\ UNCHANGED outerVars

\* The step when connect was called with the caller's array: between the
\* second resume and getUserMedia the continuity text is built from it.
ResumeOutGiven(ok) ==
  /\ SecondResume(ok)
  /\ IF ok
       THEN /\ memoryPrompt' = MemoryPrompt(callerHistory)
            /\ callerHistory' = AfterSlice(callerHistory, RecentTurns)
       ELSE UNCHANGED promptVars
  /\ UNCHANGED orchVars

\* connect is called with the caller's array.
ConnectGiven(hasKey) == Connect(callerHistory, hasKey)

\* await getUserMedia settles; on success the stream is opened
\* (ai.live.connect) and connect suspends at the handshake.
GetUserMedia(granted) ==
  /\ pc = "getUserMedia"
  /\ IF granted
       THEN /\ micStream' = TRUE
            /\ micLive' = TRUE
            /\ stream' = "connecting"
            /\ pc' = "handshake"
            /\ emitted' = <<>>
            /\ UNCHANGED isActive
       ELSE /\ Catch(<<>>)
            /\ UNCHANGED <<micStream, micLive, stream>>
  /\ last' = [op |-> "getUserMedia"]
  /\ UNCHANGED <<session, audioContext, outAudioContext, nextStartTime, sources,
                 currentInputTranscription, currentOutputTranscription, keepAliveInterval,
                 scriptProcessor, clock, handles, pending, arrived,
                 recv, turns, finalized, stopped, stoppedInConnect, intrAt>>
  /\ UNCHANGED capVars
  /\ UNCHANGED outerVars

\* startMicStreaming: the capture node is created and connected.
startMicStreaming == audioContext # "null" /\ micStream

\* The stream's onopen callback, then the continuation of
\* this.session = await sessionPromise (both run in the task of the open
\* event).
OnOpen ==
  /\ pc = "handshake"
  /\ stream = "connecting"
  /\ stream' = "open"
  /\ IF ~isActive
       THEN /\ emitted' = <<>>
            /\ UNCHANGED <<scriptProcessor, keepAliveInterval>>
       ELSE /\ emitted' = <<Status("open")>>
            /\ scriptProcessor' = IF startMicStreaming THEN TRUE ELSE scriptProcessor
            /\ keepAliveInterval' = TRUE
  /\ session' = TRUE
  /\ pc' = "done"
  /\ last' = [op |-> "onopen"]
  /\ UNCHANGED <<isActive, audioContext, outAudioContext, nextStartTime, sources,
                 currentInputTranscription, currentOutputTranscription, micStream,
                 micLive, clock, handles, pending, arrived,
                 recv, turns, finalized, stopped, stoppedInConnect, intrAt>>
  /\ captureNode' = IF isActive /\ startMicStreaming THEN TRUE ELSE captureNode
  /\ UNCHANGED <<windows, thens, sentWindows, droppedWindows>>
  /\ UNCHANGED outerVars

\* The handshake is rejected: await sessionPromise throws.
HandshakeReject ==
  /\ pc = "handshake"
  /\ stream = "connecting"
  /\ stream' = "closed"
  /\ Catch(<<>>)
  /\ last' = [op |-> "handshakeReject"]
  /\ UNCHANGED <<session, audioContext, outAudioContext, nextStartTime, sources,
                 currentInputTranscription, currentOutputTranscription, keepAliveInterval,
                 micStream, scriptProcessor, micLive, clock, handles, pending, arrived,
                 recv, turns, finalized, stopped, stoppedInConnect, intrAt>>
  /\ UNCHANGED capVars
  /\ UNCHANGED outerVars

\* The caller invokes stopAll(). The caller holds an instance only from the
\* call of connect on (the instance is constructed and connected in one
\* handler).
\* `again`: the call directly follows another stopAll.
StopAll ==
  /\ pc # "idle"
  /\ stopAll
  /\ stream' = StreamAfterStop
  /\ emitted' = <<>>
  /\ last' = [op |-> "stopAll", again |-> last.op = "stopAll"]
  /\ stopped' = TRUE
  /\ stoppedInConnect' = (stoppedInConnect \/ pc \in Suspended)
  /\ UNCHANGED <<nextStartTime, currentInputTranscription, currentOutputTranscription,
                 pc, clock, pending, arrived, recv, turns, finalized, intrAt>>
  /\ UNCHANGED capVars
  /\ UNCHANGED outerVars

\* The release steps of stopAll: stopping a playback source, disconnecting
\* the capture node, stopping a microphone track, closing the stream,
\* closing the capture context.
ReleaseSteps == {"source", "disconnect", "track", "close", "context"}

\* Whether stopAll executes the release step.
StepRuns(step) ==
  CASE step = "source" -> sources # {}
    [] step = "disconnect" -> scriptProcessor
    [] step = "track" -> micStream
    [] step = "close" -> session
    [] step = "context" -> audioContext # "null"

\* The exception of the step leaves stopAll: disconnect() and track.stop()
\* are called outside any try block.
Escapes(step) == step \in {"disconnect", "track"}

\* stopAll() when the release step `step` throws (or, for a context's
\* close(), rejects): what is assigned and released, except for the stream,
\* up to the point where the exception leaves the method, or all the rest
\* when it is caught. A failing source is the oldest member of the set.
releaseFailing(step) ==
  LET oldest == CHOOSE i \in sources : \A j \in sources : i <= j
  IN /\ isActive' = FALSE
     /\ keepAliveInterval' = FALSE
     /\ handles' = IF step = "source"
                     THEN StopSources(handles, sources \ {oldest})
                     ELSE StopSources(handles, sources)
     /\ sources' = {}
     /\ scriptProcessor' = IF step = "disconnect" THEN scriptProcessor ELSE FALSE
     /\ micLive' = IF Escapes(step) \/ ~micStream THEN micLive ELSE FALSE
     /\ micStream' = IF Escapes(step) THEN micStream ELSE FALSE
     /\ session' = IF Escapes(step) THEN session ELSE FALSE
     /\ audioContext' = IF Escapes(step) \/ step = "context" \/ audioContext = "null"
                          THEN audioContext ELSE "closed"
     /\ outAudioContext' = IF Escapes(step) \/ outAudioContext = "null"
                             THEN outAudioContext ELSE "closed"

\* stopAll() with a failing release step, and what it does to the stream:
\* session.close() is reached unless the exception has left the method, and
\* has no effect when it is the step that throws.
stopAllFailing(step) ==
  /\ releaseFailing(step)
  /\ stream' = IF Escapes(step) \/ step = "close" THEN stream ELSE StreamAfterStop

\* The caller invokes stopAll() and one release step fails.
StopAllFailing(step) ==
  /\ pc # "idle"
  /\ StepRuns(step)
  /\ stopAllFailing(step)
  /\ emitted' = <<>>
  /\ last' = [op |-> "stopAllFailing", failed |-> step, raised |-> Escapes(step)]
  /\ stopped' = TRUE
  /\ stoppedInConnect' = (stoppedInConnect \/ pc \in Suspended)
  /\ UNCHANGED <<nextStartTime, currentInputTranscription, currentOutputTranscription,
                 pc, clock, pending, arrived, recv, turns, finalized, intrAt>>
  /\ UNCHANGED capVars
  /\ UNCHANGED outerVars

\* Variant: close codes 1006 and 1011 reported as an error, 1001 as a clean
\* close (the classification of the earliest onclose).
CloseStatusAsError(code) ==
  IF code = 1006 \/ code = 1011 THEN "error" ELSE "closed"

\* The status onclose reports for a close code, when it reports one.
CloseStatus(code) ==
  IF code = 1006 \/ code = 1011 \/ code = 1001 THEN "reconnecting" ELSE "closed"

\* Variant: onclose reports without looking at the liveness flag.
oncloseUnguarded(code, wasActive) == <<Status(CloseStatus(code))>>

\* The callbacks of onclose.
onclose(code, wasActive) ==
  IF wasActive THEN <<Status(CloseStatus(code))>> ELSE <<>>

\* The fields of the instance that a callback can find released.
Held ==
  [isActive |-> isActive, session |-> session, sources |-> sources,
   keepAliveInterval |-> keepAliveInterval]

\* Variant: the onclose of the earlier manager, which reports the status
\* first and calls stopAll last: the callback finds the instance as the
\* close event found it.
OnCloseEarlier(code) ==
  /\ stream \in {"connecting", "open", "closing"}
  /\ stream' = "closed"
  /\ stopAll
  /\ emitted' = onclose(code, isActive)
  /\ last' = [op |-> "onclose", wasActive |-> isActive, from |-> stream,
              atCallback |-> Held]
  /\ UNCHANGED <<nextStartTime, currentInputTranscription, currentOutputTranscription,
                 pc, clock, pending, arrived, recv, turns, finalized, stopped, stoppedInConnect, intrAt>>
  /\ UNCHANGED capVars
  /\ UNCHANGED outerVars

\* The stream's close event: the flag is read, stopAll runs to its end and
\* then the status is reported, so that the callback finds the instance as
\* stopAll has left it (atCallback).
OnClose(code) ==
  /\ stream \in {"connecting", "open", "closing"}
  /\ stream' = "closed"
  /\ stopAll
  /\ emitted' = onclose(code, isActive)
  /\ last' = [op |-> "onclose", wasActive |-> isActive, from |-> stream,
              atCallback |-> Held']
  /\ UNCHANGED <<nextStartTime, currentInputTranscription, currentOutputTranscription,
                 pc, clock, pending, arrived, recv, turns, finalized, stopped, stoppedInConnect, intrAt>>
  /\ UNCHANGED capVars
  /\ UNCHANGED outerVars

\* The stream's close event when a release step of its stopAll fails: an
\* exception that leaves stopAll leaves onclose too, before the status is
\* reported; a caught one lets stopAll run to its end, and the callback
\* finds what that has left.
OnCloseFailing(code, step) ==
  /\ stream \in {"connecting", "open", "closing"}
  /\ StepRuns(step)
  /\ stream' = "closed"
  /\ releaseFailing(step)
  /\ emitted' = IF Escapes(step) THEN <<>> ELSE onclose(code, isActive)
  /\ last' = [op |-> "oncloseFailing", wasActive |-> isActive, from |-> stream,
              failed |-> step, raised |-> Escapes(step), atCallback |-> Held']
  /\ UNCHANGED <<nextStartTime, currentInputTranscription, currentOutputTranscription,
                 pc, clock, pending, arrived, recv, turns, finalized, stopped, stoppedInConnect, intrAt>>
  /\ UNCHANGED capVars
  /\ UNCHANGED outerVars

\* Variant: onerror only logs the event.
onerrorSilent == <<>>

\* The callbacks of onerror.
onerror == IF isActive THEN <<Status("error")>> ELSE <<>>

\* The stream's error event.
OnError ==
  /\ stream \in {"connecting", "open"}
  /\ emitted' = onerror
  /\ last' = [op |-> "onerror", wasActive |-> isActive]
  /\ UNCHANGED <<mgrVars, envVars, recv, turns, finalized, stopped, stoppedInConnect, intrAt>>
  /\ UNCHANGED capVars
  /\ UNCHANGED outerVars


\* --------------------------------------------------------------- keep-alive
\* The browser suspends the capture context (power management).
Suspend ==
  /\ audioContext = "running"
  /\ audioContext' = "suspended"
  /\ emitted' = <<>>
  /\ last' = [op |-> "suspend"]
  /\ UNCHANGED <<isActive, session, outAudioContext, nextStartTime, sources,
                 currentInputTranscription, currentOutputTranscription, keepAliveInterval,
                 micStream, scriptProcessor, envVars, capVars,
                 recv, turns, finalized, stopped, stoppedInConnect, intrAt>>
  /\ UNCHANGED outerVars

\* Variant: a timer callback that never looks at the context.
KeepAliveNever(state) == FALSE

\* The condition of the timer callback: this.audioContext?.state === 'suspended'.
KeepAliveResumes(state) == state = "suspended"

\* The keep-alive timer fires: resume() is requested on a suspended capture
\* context. `ok`: the browser grants the request.
KeepAliveTick(ok) ==
  /\ keepAliveInterval
  /\ audioContext' = IF KeepAliveResumes(audioContext) /\ ok
                       THEN Resumed(audioContext)
                       ELSE audioContext
  /\ emitted' = <<>>
  /\ last' = [op |-> "keepAlive", resume |-> KeepAliveResumes(audioContext)]
  /\ UNCHANGED <<isActive, session, outAudioContext, nextStartTime, sources,
                 currentInputTranscription, currentOutputTranscription, keepAliveInterval,
                 micStream, scriptProcessor, envVars, capVars,
                 recv, turns, finalized, stopped, stoppedInConnect, intrAt>>
  /\ UNCHANGED outerVars

\* --------------------------------------------------------- capture pipeline
\* The guard of onaudioprocess: the window is used unless
\* !this.isActive || !this.session.
Captures == isActive /\ session

\* Variant: the newest callback is run first.
ThenFront(queue, callback) == <<callback>> \o queue

\* sessionPromise.then(callback) on the resolved promise: the callback joins
\* the microtask queue behind those already waiting.
Then(queue, callback) == Append(queue, callback)

\* The capture node delivers a window of samples (onaudioprocess). A used
\* window is encoded and handed to sessionPromise.then; the node may still
\* deliver windows after stopAll has dropped the field.
OnAudioProcess ==
  /\ captureNode
  /\ windows < MaxWindows
  /\ windows' = windows + 1
  /\ IF Captures
       THEN /\ thens' = Then(thens, [id |-> windows + 1, capturedActive |-> isActive])
            /\ UNCHANGED droppedWindows
       ELSE /\ droppedWindows' = droppedWindows \cup {windows + 1}
            /\ UNCHANGED thens
  /\ emitted' = <<>>
  /\ last' = [op |-> "audioprocess", window |-> windows + 1]
  /\ UNCHANGED <<mgrVars, envVars, captureNode, sentWindows,
                 recv, turns, finalized, stopped, stoppedInConnect, intrAt>>
  /\ UNCHANGED outerVars

\* Variant: the sender of the earliest manager, which sends whenever the
\* session has resolved.
MaySendEarliest(active, resolved) == resolved

\* The condition of the then callback:
\* this.isActive && session && session.sendRealtimeInput.
MaySend(active, resolved) == active /\ resolved

\* The oldest sessionPromise.then callback runs: its window is passed to
\* sendRealtimeInput or discarded. `accepted`: the send does not throw.
\* The callback runs after the handler that queued it has returned; the
\* model lets any event come between the two.
SendDispatch(accepted) ==
  /\ thens # <<>>
  /\ thens' = Tail(thens)
  /\ LET w == Head(thens)
     IN /\ IF MaySend(isActive, TRUE) /\ accepted
             THEN /\ sentWindows' = Append(sentWindows,
                                           [id |-> w.id, capturedActive |-> w.capturedActive,
                                            dispatchedActive |-> isActive, on |-> stream])
                  /\ UNCHANGED droppedWindows
             ELSE /\ droppedWindows' = droppedWindows \cup {w.id}
                  /\ UNCHANGED sentWindows
        /\ last' = [op |-> "then", window |-> w.id, wasActive |-> isActive]
  /\ emitted' = <<>>
  /\ UNCHANGED <<mgrVars, envVars, captureNode, windows,
                 recv, turns, finalized, stopped, stoppedInConnect, intrAt>>
  /\ UNCHANGED outerVars

\* ------------------------------------------------------- inbound frames
\* Variant: the buffer is assigned the delta instead of being extended.
AccumulateAssign(buffer, part) == IF part = <<>> THEN buffer ELSE part[1]

\* buffer += part.text, when the frame carries that transcription part.
Accumulate(buffer, part) == IF part = <<>> THEN buffer ELSE buffer \o part[1]

\* The isComplete=false callback for one role, when the frame carries a
\* delta for it.
Partial(role, part, text) ==
  IF part = <<>> THEN <<>> ELSE <<Transcript(role, text, FALSE)>>

\* Variant: the model's final text is reported before the user's.
CompleteModelFirst(turnComplete, inText, outText) ==
  IF turnComplete
    THEN <<Transcript("model", outText, TRUE), Transcript("user", inText, TRUE)>>
    ELSE <<>>

\* The two isComplete=true callbacks of a turn-complete.
Complete(turnComplete, inText, outText) ==
  IF turnComplete
    THEN <<Transcript("user", inText, TRUE), Transcript("model", outText, TRUE)>>
    ELSE <<>>

\* Variant: the buffers are not cleared at a turn-complete.
AfterTurnKept(turnComplete, text) == text

\* A transcript buffer after the turn-complete block.
AfterTurn(turnComplete, text) == IF turnComplete THEN <<>> ELSE text

\* Variant: the cursor is set to the device clock.
StartCursorClock(cursor, now) == now

\* Math.max(this.nextStartTime, this.outAudioContext.currentTime).
StartCursor(cursor, now) == Max(cursor, now)

\* The condition of the audio block of handleMessage.
HasAudio(f) == f.audio # 0 /\ outAudioContext # "null" /\ isActive

\* The interruption block: every source is stopped, the set cleared, the
\* cursor reset.
Interrupt(hs, srcs) ==
  /\ handles' = StopSources(hs, srcs)
  /\ sources' = {}
  /\ nextStartTime' = 0

\* handleMessage up to its suspension at the decode, or to its end when the
\* frame has no audio to decode.
handleMessage(f) ==
  LET inText == Accumulate(currentInputTranscription, f.input)
      outText == Accumulate(currentOutputTranscription, f.output)
  IN /\ emitted' = Partial("user", f.input, inText)
                   \o Partial("model", f.output, outText)
                   \o Complete(f.turnComplete, inText, outText)
     /\ currentInputTranscription' = AfterTurn(f.turnComplete, inText)
     /\ currentOutputTranscription' = AfterTurn(f.turnComplete, outText)
     /\ IF HasAudio(f)
          THEN /\ nextStartTime' = StartCursor(nextStartTime, clock)
               /\ pending' = Append(pending, [len |-> f.audio, interrupted |-> f.interrupted,
                                              arrival |-> arrived + 1])
               /\ UNCHANGED <<handles, sources, intrAt>>
          ELSE /\ UNCHANGED pending
               /\ IF f.interrupted
                    THEN /\ Interrupt(handles, sources)
                         /\ intrAt' = arrived + 1
                    ELSE UNCHANGED <<handles, sources, nextStartTime, intrAt>>

\* The concatenation of a sequence of texts, in order.
RECURSIVE Flat(_)
Flat(ts) == IF ts = <<>> THEN <<>> ELSE Head(ts) \o Flat(Tail(ts))

\* The deltas heard for each role since the last turn-complete.
Heard(f) ==
  [r \in Roles |->
     LET part == IF r = "user" THEN f.input ELSE f.output
     IN IF part = <<>> THEN recv[r] ELSE Append(recv[r], part[1])]

\* The stream's onmessage callback for one inbound frame.
OnMessage(f, limit) ==
  /\ stream \in {"open", "closing"}
  /\ arrived < limit
  /\ arrived' = arrived + 1
  /\ IF ~isActive
       THEN /\ emitted' = <<>>
            /\ UNCHANGED <<currentInputTranscription, currentOutputTranscription,
                           nextStartTime, pending, handles, sources, intrAt,
                           recv, turns, finalized>>
       ELSE /\ handleMessage(f)
            /\ recv' = IF f.turnComplete THEN [r \in Roles |-> <<>>] ELSE Heard(f)
            /\ turns' = IF f.turnComplete THEN turns + 1 ELSE turns
            /\ finalized' = IF f.turnComplete
                               THEN [r \in Roles |-> Flat(Heard(f)[r])]
                               ELSE finalized
  /\ last' = IF isActive THEN [op |-> "onmessage", frame |-> f] ELSE [op |-> "dropped"]
  /\ UNCHANGED <<isActive, session, audioContext, outAudioContext, keepAliveInterval,
                 micStream, scriptProcessor, pc, stream, micLive, clock,
                 stopped, stoppedInConnect>>
  /\ UNCHANGED capVars
  /\ UNCHANGED outerVars

\* The rest of handleMessage once the decode of its chunk has settled:
\* the buffer is scheduled at the cursor, then the interruption block runs.
\* `refused`: the browser refuses to create a node on a closed context.
AfterDecode(p, refused) ==
  LET buffer == decodeAudioData(p.len, 1)
      source == [start |-> nextStartTime, dur |-> buffer.duration, arrival |-> p.arrival,
                 clockAt |-> clock, st |-> "started"]
      hs == Append(handles, source)
      srcs == sources \cup {Len(hs)}
  IN IF ~buffer.ok \/ (refused /\ outAudioContext = "closed")
       THEN /\ UNCHANGED <<handles, sources, nextStartTime, intrAt>>
            /\ last' = [op |-> "decodeFailed", arrival |-> p.arrival]
       ELSE /\ IF p.interrupted
                 THEN /\ Interrupt(hs, srcs)
                      /\ intrAt' = p.arrival
                 ELSE /\ handles' = hs
                      /\ sources' = srcs
                      /\ nextStartTime' = nextStartTime + buffer.duration
                      /\ UNCHANGED intrAt
            /\ last' = [op |-> "scheduled", arrival |-> p.arrival,
                        interrupted |-> p.interrupted]

\* The oldest suspended handleMessage call resumes. onmessage does not await
\* handleMessage, so between the suspension and this step any other event
\* (a later frame, a clock advance, stopAll, a close) may be handled.
\* Suspended calls resume in the order in which they suspended.
DecodeResume(refused) ==
  /\ pending # <<>>
  /\ pending' = Tail(pending)
  /\ AfterDecode(Head(pending), refused)
  /\ emitted' = <<>>
  /\ UNCHANGED <<isActive, session, audioContext, outAudioContext,
                 currentInputTranscription, currentOutputTranscription, keepAliveInterval,
                 micStream, scriptProcessor, pc, stream, micLive, clock, arrived,
                 recv, turns, finalized, stopped, stoppedInConnect>>
  /\ UNCHANGED capVars
  /\ UNCHANGED outerVars

\* ------------------------------------------------------ playback device
\* The playback clock advances while the output context runs.
Tick ==
  /\ outAudioContext = "running"
  /\ clock < MaxClock
  /\ clock' = clock + 1
  /\ emitted' = <<>>
  /\ last' = [op |-> "tick"]
  /\ UNCHANGED <<mgrVars, pc, stream, micLive, handles, pending, arrived,
                 recv, turns, finalized, stopped, stoppedInConnect, intrAt>>
  /\ UNCHANGED capVars
  /\ UNCHANGED outerVars

\* When a started source has played to its end.
EndTime(h) == Max(h.start, h.clockAt) + h.dur

\* A source ends naturally; its onended handler removes it from the set.
Ended(i) ==
  /\ outAudioContext = "running"
  /\ handles[i].st = "started"
  /\ clock >= EndTime(handles[i])
  /\ handles' = [handles EXCEPT ![i].st = "ended"]
  /\ sources' = sources \ {i}
  /\ emitted' = <<>>
  /\ last' = [op |-> "ended"]
  /\ UNCHANGED <<isActive, session, audioContext, outAudioContext, nextStartTime,
                 currentInputTranscription, currentOutputTranscription, keepAliveInterval,
                 micStream, scriptProcessor, envVarsButHandles, recv, turns, finalized, stopped, stoppedInConnect, intrAt>>
  /\ UNCHANGED capVars
  /\ UNCHANGED outerVars

\* ---------------------------------------------------------- the orchestrator
\* The orchestrator's state as one value, so that a handler that runs
\* several callbacks in one step is the composition of their effects.
App ==
  [retryCount |-> retryCount, isUserEndingCall |-> isUserEndingCall, isCalling |-> isCalling,
   callStatus |-> callStatus, errorMessage |-> errorMessage, history |-> history,
   historyRef |-> historyRef, currentSpeech |-> currentSpeech,
   geminiService |-> geminiService, timers |-> timers, instances |-> instances,
   reentering |-> reentering, isKeyMissing |-> isKeyMissing, apiKey |-> apiKey,
   aistudio |-> aistudio, checkingKey |-> checkingKey, selectingKey |-> selectingKey,
   rejected |-> rejected, unwinding |-> unwinding,
   armed |-> armed, userEnded |-> userEnded, appLast |-> appLast]

SetApp(o) ==
  /\ retryCount' = o.retryCount
  /\ isUserEndingCall' = o.isUserEndingCall
  /\ isCalling' = o.isCalling
  /\ callStatus' = o.callStatus
  /\ errorMessage' = o.errorMessage
  /\ history' = o.history
  /\ historyRef' = o.historyRef
  /\ currentSpeech' = o.currentSpeech
  /\ geminiService' = o.geminiService
  /\ timers' = o.timers
  /\ instances' = o.instances
  /\ reentering' = o.reentering
  /\ isKeyMissing' = o.isKeyMissing
  /\ apiKey' = o.apiKey
  /\ aistudio' = o.aistudio
  /\ checkingKey' = o.checkingKey
  /\ selectingKey' = o.selectingKey
  /\ rejected' = o.rejected
  /\ unwinding' = o.unwinding
  /\ armed' = o.armed
  /\ userEnded' = o.userEnded
  /\ appLast' = o.appLast
  /\ UNCHANGED <<mgrVars, envVars, capVars, obsVars, promptVars>>

\* The orchestrator as a handler begins: op is the handler, inst the
\* instance whose event it is (0 for the user's), cause the instance whose
\* status or retry made it run.
Begin(op, inst, cause) ==
  [App EXCEPT !.appLast = [op |-> op, inst |-> inst, cause |-> cause, connects |-> 0,
                           retries |-> 0, tornDown |-> 0, afterEnd |-> FALSE,
                           passed |-> <<>>, cbs |-> <<>>, raised |-> FALSE]]

\* A manager instance as the orchestrator sees it: how far its connect
\* call is ("setup" until getUserMedia answers, "handshake" from then until
\* the handshake settles, "open" with a session, "leaked" when the
\* handshake was accepted after the instance was stopped, "failed",
\* "closed", "new" when connect never ran), its liveness flag, whether it
\* holds a microphone stream or a capture node, and its two transcript
\* buffers.
NewInstance ==
  [phase |-> "setup", active |-> TRUE, holds |-> FALSE,
   currentInputTranscription |-> <<>>, currentOutputTranscription |-> <<>>]

\* An instance that was constructed and whose connect call never ran.
Unconnected == [NewInstance EXCEPT !.phase = "new", !.active = FALSE]

\* stopAll on an instance. The flag drops first. When scriptProcessor
\* .disconnect() or a track's stop() throws (raises), the exception leaves
\* stopAll there: the field of the failing step keeps its value and the
\* session, if any, is not closed. Otherwise the capture node and the
\* microphone are released and a held session is closed, that of a leaked
\* instance included (its session field was set when the handshake was
\* accepted); the state of a connect call in progress is left as it is.
stopInstance(inst, raises) ==
  IF raises
    THEN [inst EXCEPT !.active = FALSE]
    ELSE [inst EXCEPT !.active = FALSE,
                      !.holds = FALSE,
                      !.phase = IF @ \in {"open", "leaked"} THEN "closed" ELSE @]

\* Whether the stopAll that handleStartCall or handleEndCall would call can
\* throw: there is an instance and it holds what the unguarded steps
\* release.
MayRaise(o) == o.geminiService # 0 /\ o.instances[o.geminiService].holds

Healthy(inst) == inst.phase = "open" /\ inst.active

\* Variant: a retry is allowed whatever the counter says.
MayRetryAlways(count) == TRUE

\* The test both retry paths make on the counter.
MayRetry(count) == count < RetryLimit

\* retryCount.current++; setTimeout(() => handleStartCall(true), 1500)
ArmRetry(o, i) ==
  [o EXCEPT !.retryCount = @ + 1,
            !.armed = @ + 1,
            !.timers = Append(@, [by |-> i, delay |-> RetryDelay]),
            !.appLast.retries = @ + 1]

\* The 'error' branch of the status callback, after the status is shown.
onErrorStatus(o) ==
  IF MayRetry(o.retryCount) THEN ArmRetry(o, o.appLast.inst)
  ELSE [o EXCEPT !.errorMessage = TRUE]

\* Variant: every start empties the history.
AfterStartEmptied(isReconnect, turns_) == <<>>

\* if (!isReconnect) setHistory([])
AfterStart(isReconnect, turns_) == IF isReconnect THEN turns_ ELSE <<>>

\* handleStartCall, with an avatar selected, up to the point where the
\* handler returns. When the stopAll of the instance in use throws
\* (raises), the handler ends there, after its first four assignments,
\* with a rejected promise that no one observes: no instance is made and
\* connect is not called. Otherwise the status callback of the connect
\* call it makes finds isUserEndingCall false, shows the status, and on
\* 'reconnecting' resets the counter and calls handleStartCall(true) from
\* inside the connect call: reentering. Otherwise connect goes on to read
\* the key: without one it throws inside its try, its catch drops the flag
\* and reports 'error' to the same callback, and the call returns a
\* rejected promise. (The key is never taken away and no instance opens
\* without one, so a history is never passed without a key.)
handleStartCall(o, isReconnect, raises) ==
  LET old == o.geminiService
      entered ==
        [o EXCEPT !.isUserEndingCall = FALSE,
                  !.isCalling = TRUE,
                  !.callStatus = IF isReconnect THEN "reconnecting" ELSE "connecting",
                  !.errorMessage = FALSE,
                  !.instances = IF old = 0 THEN @ ELSE [@ EXCEPT ![old] = stopInstance(@, raises)],
                  !.appLast.tornDown = IF old # 0 /\ Healthy(o.instances[old]) THEN old ELSE @,
                  !.appLast.raised = raises]
      new == Len(o.instances) + 1
      status == InitialStatus(Len(o.historyRef))
      reset == ~isReconnect \/ status = "reconnecting"
      started ==
        [entered EXCEPT !.callStatus = status,
                        !.instances = Append(@, NewInstance),
                        !.geminiService = new,
                        !.history = AfterStart(isReconnect, @),
                        !.appLast.passed = o.historyRef,
                        !.retryCount = IF reset THEN 0 ELSE @,
                        !.armed = IF reset THEN 0 ELSE @,
                        !.reentering = (status = "reconnecting"),
                        !.appLast.connects = @ + 1,
                        !.appLast.afterEnd = o.userEnded]
  IN IF raises THEN entered
     ELSE IF MissingKey(o.apiKey) /\ status # "reconnecting"
     THEN onErrorStatus([started EXCEPT !.instances[new].phase = "failed",
                                        !.instances[new].active = FALSE,
                                        !.callStatus = "error",
                                        !.appLast.inst = new,
                                        !.rejected = Append(@, new)])
     ELSE started

\* Whether a status makes the callback call handleStartCall.
Restarts(o, status) == ~o.isUserEndingCall /\ status = "reconnecting"

\* The status callback the orchestrator hands to connect. `raises`: the
\* stopAll of the handleStartCall it calls throws.
onStatusChange(o, status, raises) ==
  IF o.isUserEndingCall THEN o
  ELSE LET shown == [o EXCEPT !.callStatus = status] IN
       CASE status = "error" -> onErrorStatus(shown)
         [] status = "reconnecting" ->
              handleStartCall([shown EXCEPT !.retryCount = 0, !.armed = 0], TRUE, raises)
         [] status = "open" -> [shown EXCEPT !.retryCount = 0, !.armed = 0]
         [] OTHER -> shown

\* The status callbacks of one event, in order.
Deliver(o, cbs, raises) ==
  IF cbs = <<>> THEN o ELSE onStatusChange(o, cbs[1].status, raises)

\* The catch clause of handleStartCall.
catchStartCall(o) ==
  IF ~o.isUserEndingCall /\ MayRetry(o.retryCount) THEN ArmRetry(o, o.appLast.inst)
  ELSE [o EXCEPT !.callStatus = "error", !.errorMessage = TRUE]

HasRoom == Len(instances) < MaxInstances

\* Pending timers after a step are within the bound.
TimersFit(o) == Len(o.timers) <= MaxTimers

\* No handler is on the stack and no rejection waits for its catch clause:
\* the next event can be handled.
Idle == ~reentering /\ unwinding = <<>> /\ rejected = <<>>

\* The orchestrator once the catch clauses of the rejected connect calls
\* have run, in the order of the rejections.
RECURSIVE Drained(_)
Drained(o) ==
  IF o.rejected = <<>> THEN o
  ELSE Drained(catchStartCall([o EXCEPT !.appLast.inst = Head(o.rejected),
                                        !.rejected = Tail(@)]))

\* The timers fit after a step and after the catch clauses that follow it.
Settles(o) == TimersFit(Drained(o))

\* The user presses the call button of the start screen.
UserStartCall(raises) ==
  /\ ~isCalling
  /\ Idle
  /\ HasRoom
  /\ raises => MayRaise(App)
  /\ LET after == handleStartCall([Begin("userStart", 0, 0) EXCEPT !.userEnded = FALSE],
                                  FALSE, raises)
     IN Settles(after) /\ SetApp(after)

\* The user presses the reconnect button shown with the error message.
ManualReconnect(raises) ==
  /\ isCalling
  /\ errorMessage
  /\ Idle
  /\ HasRoom
  /\ raises => MayRaise(App)
  /\ LET after == handleStartCall([Begin("userReconnect", 0, 0) EXCEPT !.userEnded = FALSE],
                                  TRUE, raises)
     IN Settles(after) /\ SetApp(after)

\* The call that connect's first 'reconnecting' status makes. The instance
\* it stops is in the synchronous part of its connect call and holds
\* nothing that stopAll could fail to release.
Reenter ==
  /\ reentering
  /\ HasRoom
  /\ SetApp(handleStartCall([App EXCEPT !.appLast.op = "reenter",
                                        !.appLast.inst = geminiService,
                                        !.appLast.cause = geminiService], TRUE, FALSE))

\* retryCount.current++ of a retry whose setTimeout call throws the
\* RangeError: the counter has moved and no timer is armed.
CountRetry(o) == [o EXCEPT !.retryCount = @ + 1]

\* The calls of the innermost handleStartCall(true) at which the RangeError
\* of an exhausted stack can strike; which one it is depends on the size of
\* the stack and of the frames on it.
Strikes == {"handleStartCall", "stopAll", "connect", "setTimeout"}

\* The calls of a connect call, after its callback has been called, at
\* which the RangeError can strike: the status callback itself, and once it
\* has returned the two constructors connect calls before its first await.
ConnectStrikes == {"onStatusChange", "GoogleGenAI", "AudioContext"}

\* How far the 'error' report of a connect call's catch gets on a stack
\* that is nearly exhausted: the call at which it throws, or "none".
ReportStrikes == {"onStatusChange", "setTimeout", "none"}

\* The connect calls on the stack when control is in the innermost status
\* callback: those the handler has made, innermost first.
Chain(o) == [j \in 1..o.appLast.connects |-> o.geminiService - j + 1]

\* The stack is exhausted inside the handleStartCall(true) that the
\* innermost 'reconnecting' callback calls. The bound on the instances
\* stands for the depth of the stack. The call's promise rejects unobserved
\* and the callback returns into its connect call.
\* "handleStartCall": it throws before its stopAll: the current instance
\*   stays active.
\* "stopAll": it throws after stopAll has dropped the current instance's
\*   flag, before the next instance is constructed.
\* "connect": it constructs the next instance and the call of connect
\*   throws inside its try; its catch counts a retry and arms it.
\* "setTimeout": as before, and the setTimeout of the catch throws.
StackOverflows(strike) ==
  /\ reentering
  /\ ~HasRoom
  /\ LET current == geminiService
         o == [App EXCEPT !.appLast.op = "overflow",
                          !.appLast.inst = current,
                          !.appLast.cause = current,
                          !.reentering = FALSE,
                          !.unwinding = Chain(App)]
         inner == [o EXCEPT !.isUserEndingCall = FALSE,
                            !.isCalling = TRUE,
                            !.callStatus = "reconnecting",
                            !.errorMessage = FALSE,
                            !.instances[current] = stopInstance(@, FALSE)]
         next == [inner EXCEPT !.instances = Append(@, Unconnected),
                               !.geminiService = Len(o.instances) + 1,
                               !.appLast.inst = Len(o.instances) + 1]
         after ==
           CASE strike = "handleStartCall" -> o
             [] strike = "stopAll" -> inner
             [] strike = "connect" -> catchStartCall(next)
             [] strike = "setTimeout" ->
                  IF ~next.isUserEndingCall /\ MayRetry(next.retryCount) THEN CountRetry(next)
                  ELSE [next EXCEPT !.callStatus = "error", !.errorMessage = TRUE]
     IN Settles(after) /\ SetApp(after)

\* A connect call of the chain ends in its catch: the RangeError strikes
\* in its try, at the call of the status callback (the innermost connect
\* call, out of which no handleStartCall was reached) or, once the callback
\* has returned, at new GoogleGenAI or new AudioContext. The catch drops
\* the flag and reports 'error' to the status callback, which runs on the
\* same stack and gets as far as `report` says, and the call rejects.
\* Control returns to the connect call below.
ConnectOverflows(strike, report) ==
  /\ IF strike = "onStatusChange" THEN reentering /\ ~HasRoom ELSE unwinding # <<>>
  /\ LET levels == IF reentering THEN Chain(App) ELSE unwinding
         k == Head(levels)
         failed == [App EXCEPT !.appLast.op = "connectOverflows",
                               !.appLast.inst = k,
                               !.appLast.cause = k,
                               !.appLast.retries = 0,
                               !.reentering = FALSE,
                               !.unwinding = Tail(levels),
                               !.instances[k].phase = "failed",
                               !.instances[k].active = FALSE,
                               !.rejected = Append(@, k)]
         after ==
           CASE report = "onStatusChange" -> failed
             [] report = "setTimeout" -> CountRetry([failed EXCEPT !.callStatus = "error"])
             [] report = "none" -> onStatusChange(failed, "error", FALSE)
     IN /\ report = "setTimeout" => ~failed.isUserEndingCall /\ MayRetry(failed.retryCount)
        /\ Settles(after)
        /\ SetApp(after)

\* The connect call to which control has returned goes on to its first
\* await, and so do the connect calls below it, which find more of the
\* stack free: the handler returns.
ConnectAwaits ==
  /\ unwinding # <<>>
  /\ SetApp([App EXCEPT !.appLast.op = "connectAwaits",
                        !.appLast.inst = Head(unwinding),
                        !.appLast.cause = Head(unwinding),
                        !.unwinding = <<>>])

\* handleStartCall's catch clause, for the connect call that rejected
\* first among those whose rejection waits: it runs when the handler has
\* returned, before any other event.
RejectionCaught ==
  /\ ~reentering
  /\ unwinding = <<>>
  /\ rejected # <<>>
  /\ SetApp(catchStartCall([Begin("rejectionCaught", Head(rejected), Head(rejected))
                              EXCEPT !.rejected = Tail(@)]))

\* hasSelectedApiKey answers checkKey, which sets isKeyMissing when the
\* environment held no key as the page loaded and none is selected. (The
\* key can only change through the panel that this answer brings up.)
checkKey(hasSelected) ==
  /\ Idle
  /\ checkingKey
  /\ SetApp([Begin("checkKey", 0, 0) EXCEPT
               !.checkingKey = FALSE,
               !.isKeyMissing = IF ~apiKey /\ ~hasSelected THEN TRUE ELSE @])

\* The user presses 'Configure API Key' on the start screen's key panel.
\* With window.aistudio the selection dialog opens, one at a time; without
\* it the message is set.
handleOpenKeySelector ==
  /\ Idle
  /\ ~isCalling
  /\ isKeyMissing
  /\ ~selectingKey
  /\ SetApp(IF aistudio
              THEN [Begin("openKeySelector", 0, 0) EXCEPT !.selectingKey = TRUE]
              ELSE [Begin("openKeySelector", 0, 0) EXCEPT !.errorMessage = TRUE])

\* The selection dialog closes and handleOpenKeySelector goes on: the panel
\* goes, whatever has happened since the click (whether the dialog left a
\* key in the environment is the user's and the host's doing).
KeySelectorCloses(selected) ==
  /\ Idle
  /\ selectingKey
  /\ SetApp([Begin("keySelectorCloses", 0, 0) EXCEPT !.selectingKey = FALSE,
                                                     !.isKeyMissing = FALSE,
                                                     !.apiKey = @ \/ selected])

\* A retry timer expires.
TimerFires(raises) ==
  /\ timers # <<>>
  /\ Idle
  /\ HasRoom
  /\ raises => MayRaise(App)
  /\ LET after == handleStartCall([Begin("timer", 0, Head(timers).by) EXCEPT !.timers = Tail(@)],
                                  TRUE, raises)
     IN Settles(after) /\ SetApp(after)

\* The user presses the end button of the call screen. When the stopAll of
\* the instance in use throws (raises), the handler ends there: the call
\* screen, the status and the history stay.
handleEndCall(raises) ==
  /\ isCalling
  /\ Idle
  /\ raises => MayRaise(App)
  /\ LET o == Begin("endCall", 0, 0)
         old == o.geminiService
         stopped_ ==
           [o EXCEPT !.isUserEndingCall = TRUE,
                     !.instances = IF old = 0 THEN @ ELSE [@ EXCEPT ![old] = stopInstance(@, raises)],
                     !.userEnded = TRUE,
                     !.appLast.tornDown = IF old # 0 /\ Healthy(o.instances[old]) THEN old ELSE @,
                     !.appLast.raised = raises]
     IN SetApp(IF raises THEN stopped_
               ELSE [stopped_ EXCEPT !.isCalling = FALSE,
                                     !.callStatus = "idle",
                                     !.errorMessage = FALSE,
                                     !.history = <<>>,
                                     !.historyRef = <<>>,
                                     !.currentSpeech = NoSpeech])

\* getUserMedia answers instance i's connect call with a stream, whatever
\* the flag says: the instance holds the microphone, calls ai.live.connect
\* and waits for the handshake.
MicGranted(i) ==
  /\ Idle
  /\ instances[i].phase = "setup"
  /\ SetApp([Begin("micGranted", i, i) EXCEPT !.instances[i].phase = "handshake",
                                              !.instances[i].holds = TRUE])

\* Instance i's setup fails (a resume or getUserMedia is rejected, or the
\* handshake is): connect's catch drops the flag, reports 'error' and
\* rethrows, and the rejection reaches handleStartCall's catch. What the
\* instance holds it keeps.
SetupFails(i) ==
  /\ Idle
  /\ instances[i].phase \in {"setup", "handshake"}
  /\ LET o == [Begin("setupFails", i, i) EXCEPT !.instances[i].phase = "failed",
                                                !.instances[i].active = FALSE]
         after == catchStartCall(onStatusChange(o, "error", FALSE))
     IN TimersFit(after) /\ SetApp(after)

\* The remote accepts instance i's handshake.
Opens(i) ==
  /\ Idle
  /\ instances[i].phase = "handshake"
  /\ LET o == Begin("opens", i, i)
     IN IF instances[i].active
        THEN SetApp(onStatusChange([o EXCEPT !.instances[i].phase = "open"], "open", FALSE))
        ELSE SetApp([o EXCEPT !.instances[i].phase = "leaked"])

\* The error event of instance i's stream.
StreamError(i) ==
  /\ Idle
  /\ instances[i].phase \in {"handshake", "open"}
  /\ instances[i].active
  /\ LET after == Deliver(Begin("streamError", i, i),
                          IF instances[i].active THEN <<Status("error")>> ELSE <<>>, FALSE)
     IN TimersFit(after) /\ SetApp(after)

\* The close event of instance i's stream. The handler runs whatever the
\* flag says: on a leaked instance it releases the session and reports
\* nothing. When its stopAll throws (raises), the exception leaves the
\* handler before the status is reported. `raisesNext`: the stopAll of the
\* handleStartCall that the 'reconnecting' callback calls throws.
Closes(i, code, raises, raisesNext) ==
  /\ Idle
  /\ instances[i].phase \in {"handshake", "open", "leaked"}
  /\ raises => instances[i].holds
  /\ LET wasActive == instances[i].active
         cbs == IF raises THEN <<>> ELSE onclose(code, wasActive)
         restarts == cbs # <<>> /\ Restarts(App, cbs[1].status)
         closed == [Begin("closes", i, i) EXCEPT
                      !.instances[i] = [stopInstance(@, raises) EXCEPT !.phase = "closed"],
                      !.appLast.raised = raises]
     IN /\ raisesNext => restarts /\ MayRaise(closed)
        /\ (restarts /\ ~raisesNext) => HasRoom
        /\ SetApp(Deliver(closed, cbs, raisesNext))

\* Variant: every callback is recorded as a turn.
onTranscriptionUpdateAlways(o, cb) ==
  [o EXCEPT !.history = Append(@, [role |-> cb.role, text |-> cb.text]),
            !.currentSpeech = NoSpeech]

\* The transcription callback the orchestrator hands to connect.
onTranscriptionUpdate(o, cb) ==
  IF cb.isComplete
    THEN [o EXCEPT !.history = Append(@, [role |-> cb.role, text |-> cb.text]),
                   !.currentSpeech = NoSpeech]
    ELSE [o EXCEPT !.currentSpeech = [role |-> cb.role, text |-> cb.text]]

\* The transcription callbacks of one frame, in order.
RECURSIVE DeliverTranscripts(_, _)
DeliverTranscripts(o, cbs) ==
  IF cbs = <<>> THEN o
  ELSE DeliverTranscripts(onTranscriptionUpdate(o, Head(cbs)), Tail(cbs))

\* The callbacks handleMessage makes for frame f when the instance's
\* transcript buffers hold inBuffer and outBuffer.
FrameCallbacks(f, inBuffer, outBuffer) ==
  LET inText == Accumulate(inBuffer, f.input)
      outText == Accumulate(outBuffer, f.output)
  IN Partial("user", f.input, inText) \o Partial("model", f.output, outText)
     \o Complete(f.turnComplete, inText, outText)

\* A frame reaches instance i: onmessage passes it to handleMessage while
\* the instance is active; handleMessage adds the frame's deltas to the
\* instance's buffers, makes its callbacks and clears the buffers at a
\* turn-complete.
Transcribes(i, f, limit) ==
  /\ Idle
  /\ Healthy(instances[i])
  /\ LET inBuffer == instances[i].currentInputTranscription
         outBuffer == instances[i].currentOutputTranscription
         inText == Accumulate(inBuffer, f.input)
         outText == Accumulate(outBuffer, f.output)
         cbs == FrameCallbacks(f, inBuffer, outBuffer)
         o == [Begin("transcribes", i, i) EXCEPT
                 !.appLast.cbs = cbs,
                 !.instances[i].currentInputTranscription = AfterTurn(f.turnComplete, inText),
                 !.instances[i].currentOutputTranscription = AfterTurn(f.turnComplete, outText)]
         after == DeliverTranscripts(o, cbs)
     IN /\ Len(inText) <= MaxTranscript
        /\ Len(outText) <= MaxTranscript
        /\ Len(after.history) <= limit
        /\ SetApp(after)

\* Instance i completes a turn whose transcriptions came with the frame.
TurnCompletes(i) ==
  Transcribes(i, [input |-> <<<<"a">>>>, output |-> <<<<"b">>>>, turnComplete |-> TRUE,
                  audio |-> 0, interrupted |-> FALSE], MaxOrchHistory)

\* The effect that copies the rendered history into historyRef; it runs
\* after a render in which the history has changed.
HistoryEffect ==
  /\ Idle
  /\ historyRef # history
  /\ SetApp([Begin("historyEffect", 0, 0) EXCEPT !.historyRef = history])

\* ---------------------------------------------------------- specification
\* The connect call, the caller's stopAll and the stream's lifecycle events.
Lifecycle ==
  \/ \E h \in Histories, k \in BOOLEAN : Connect(h, k)
  \/ \E ok \in BOOLEAN : ResumeIn(ok)
  \/ \E ok \in BOOLEAN : ResumeOut(ok)
  \/ \E ok \in BOOLEAN : GetUserMedia(ok)
  \/ OnOpen
  \/ HandshakeReject
  \/ StopAll
  \/ \E c \in CloseCodes : OnClose(c)
  \/ OnError

\* The playback device and the suspended decodes.
Playback ==
  \/ \E r \in BOOLEAN : DecodeResume(r)
  \/ Tick
  \/ \E i \in DOMAIN handles : Ended(i)

\* The session under frames that carry playback parts.
Next ==
  \/ Lifecycle
  \/ \E f \in Frames : OnMessage(f, MaxFrames)
  \/ Playback

Spec == Init /\ [][Next]_vars

\* The session under frames that carry transcription parts only.
NextText ==
  \/ Lifecycle
  \/ \E f \in TextFrames : OnMessage(f, MaxTextFrames)

SpecText == Init /\ [][NextText]_vars

\* The session when a release step of stopAll may fail.
NextRelease ==
  \/ Lifecycle
  \/ \E f \in AudioFrames : OnMessage(f, MaxReleaseFrames)
  \/ \E r \in BOOLEAN : DecodeResume(r)
  \/ \E step \in ReleaseSteps : StopAllFailing(step)
  \/ \E c \in CloseCodes, step \in ReleaseSteps : OnCloseFailing(c, step)

SpecRelease == Init /\ [][NextRelease]_vars

\* The session and its capture pipeline.
NextCapture ==
  \/ Lifecycle
  \/ OnAudioProcess
  \/ \E accepted \in BOOLEAN : SendDispatch(accepted)

SpecCapture == Init /\ [][NextCapture]_vars

\* The session, its capture pipeline, the browser's suspension of the
\* capture context and the keep-alive timer. setInterval fires the callback
\* again and again for as long as the timer exists.
NextKeepAlive ==
  \/ NextCapture
  \/ Suspend
  \/ \E ok \in BOOLEAN : KeepAliveTick(ok)

SpecKeepAlive ==
  Init /\ [][NextKeepAlive]_vars /\ WF_vars(\E ok \in BOOLEAN : KeepAliveTick(ok))

\* The continuity text, over every history up to MaxPromptHistory turns.
InitPrompt ==
  /\ InitSession
  /\ callerHistory \in PromptHistories
  /\ memoryPrompt = <<>>
  /\ InitApp

NextPrompt ==
  \/ BuildMemoryPrompt
  \/ BuildMemoryPromptEarlier

SpecPrompt == InitPrompt /\ [][NextPrompt]_vars

\* The session that is called with the caller's array: connect, then every
\* later operation of the manager. The array may have been handed to an
\* instance of the earlier manager before.
InitGiven ==
  /\ InitSession
  /\ callerHistory \in GivenHistories
  /\ memoryPrompt = <<>>
  /\ InitApp

NextGiven ==
  \/ BuildMemoryPromptEarlier
  \/ \E k \in BOOLEAN : ConnectGiven(k)
  \/ \E ok \in BOOLEAN : ResumeIn(ok)
  \/ \E ok \in BOOLEAN : ResumeOutGiven(ok)
  \/ \E ok \in BOOLEAN : GetUserMedia(ok)
  \/ OnOpen
  \/ HandshakeReject
  \/ StopAll
  \/ \E c \in CloseCodes : OnClose(c)
  \/ OnError
  \/ \E f \in AudioFrames : OnMessage(f, MaxReleaseFrames)
  \/ \E r \in BOOLEAN : DecodeResume(r)
  \/ OnAudioProcess
  \/ \E accepted \in BOOLEAN : SendDispatch(accepted)

SpecGiven == InitGiven /\ [][NextGiven]_vars

\* The orchestrator and the manager instances it creates.
NextApp ==
  \/ \E raises \in BOOLEAN : UserStartCall(raises)
  \/ \E raises \in BOOLEAN : ManualReconnect(raises)
  \/ \E raises \in BOOLEAN : handleEndCall(raises)
  \/ \E raises \in BOOLEAN : TimerFires(raises)
  \/ Reenter
  \/ \E strike \in Strikes : StackOverflows(strike)
  \/ \E strike \in ConnectStrikes, report \in ReportStrikes : ConnectOverflows(strike, report)
  \/ ConnectAwaits
  \/ RejectionCaught
  \/ \E i \in DOMAIN instances : MicGranted(i)
  \/ \E i \in DOMAIN instances : SetupFails(i)
  \/ \E i \in DOMAIN instances : Opens(i)
  \/ \E i \in DOMAIN instances : StreamError(i)
  \/ \E i \in DOMAIN instances, c \in CloseCodes, raises \in BOOLEAN, raisesNext \in BOOLEAN :
       Closes(i, c, raises, raisesNext)
  \/ \E i \in DOMAIN instances : TurnCompletes(i)
  \/ HistoryEffect

SpecApp == Init /\ [][NextApp]_vars

\* The orchestrator on a page that loaded without a key.
InitKey ==
  /\ InitSession
  /\ callerHistory = <<>>
  /\ memoryPrompt = <<>>
  /\ InitAppKeyless

NextKey ==
  \/ \E hasSelected \in BOOLEAN : checkKey(hasSelected)
  \/ handleOpenKeySelector
  \/ \E selected \in BOOLEAN : KeySelectorCloses(selected)
  \/ NextApp

SpecKey == InitKey /\ [][NextKey]_vars

\* The transcription frames of a call in which every delta of the user's
\* speech is "a" and every delta of the model's is "b".
CallFrames ==
  { f \in TextFrames : f.input \in {<<>>, <<<<"a">>>>} /\ f.output \in {<<>>, <<<<"b">>>>} }

\* The orchestrator under the transcription frames of one call.
NextHistory ==
  \/ UserStartCall(FALSE)
  \/ \E i \in DOMAIN instances : MicGranted(i)
  \/ \E i \in DOMAIN instances : Opens(i)
  \/ \E i \in DOMAIN instances, f \in CallFrames : Transcribes(i, f, MaxCallHistory)
  \/ HistoryEffect

SpecHistory == Init /\ [][NextHistory]_vars


\* ============================================================== properties
\* The transcription part a frame carries for a role.
PartOf(f, r) == IF r = "user" THEN f.input ELSE f.output

IsPartial(c) == c.cb = "transcript" /\ ~c.isComplete

IsComplete(c) == c.cb = "transcript" /\ c.isComplete

\* The last step ran the interruption block of handleMessage.
InterruptStep ==
  \/ last.op = "onmessage" /\ last.frame.interrupted /\ last.frame.audio = 0
  \/ last.op = "scheduled" /\ last.interrupted

Open(ctx) == ctx \in {"suspended", "running"}

\* C1: if stopAll is called while connect is suspended, then once connect
\* has run to completion the instance holds no active playback handle, no
\* open audio context, no running microphone track or capture node, no
\* keep-alive timer and no open stream.
C1_StopDuringConnectReleasesAll ==
  (stoppedInConnect /\ pc \in {"done", "failed"}) =>
     /\ sources = {}
     /\ ~Open(audioContext)
     /\ ~Open(outAudioContext)
     /\ ~micLive
     /\ ~scriptProcessor
     /\ ~keepAliveInterval
     /\ stream \notin {"connecting", "open"}

\* C2: once the liveness flag of an instance has become false, no step of
\* that instance invokes a callback.
C2_NoCallbackOnceInactive ==
  [][(pc # "idle" /\ ~isActive) => emitted' = <<>>]_vars

\* C3: every isComplete=false callback carries the concatenation, in arrival
\* order, of the deltas its role received since the previous turn-complete,
\* and every delta of a frame handled by an active session is reported so.
C3_PartialIsConcatenation ==
  [][/\ \A i \in DOMAIN emitted' :
          IsPartial(emitted'[i]) =>
            /\ last'.op = "onmessage"
            /\ PartOf(last'.frame, emitted'[i].role) # <<>>
            /\ emitted'[i].text =
                 Flat(recv[emitted'[i].role]) \o PartOf(last'.frame, emitted'[i].role)[1]
     /\ \A r \in Roles :
          (last'.op = "onmessage" /\ arrived' = arrived + 1 /\ PartOf(last'.frame, r) # <<>>) =>
            Cardinality({i \in DOMAIN emitted' :
                           IsPartial(emitted'[i]) /\ emitted'[i].role = r}) = 1
    ]_vars

\* C3 witness: a partial callback that carries two deltas in arrival order.
C3_Witness ==
  /\ last.op = "onmessage"
  /\ \E i \in DOMAIN emitted :
       IsPartial(emitted[i]) /\ emitted[i].role = "model" /\ emitted[i].text = <<"b", "a">>

\* C4: a turn-complete handled by an active session yields exactly two
\* isComplete=true callbacks, user then model, each with the text its role
\* accumulated (a delta of the same frame included), and leaves both buffers
\* empty; no other step makes an isComplete=true callback.
C4_TurnCompleteFinalizesBoth ==
  [][LET done == SelectSeq(emitted', IsComplete)
     IN IF last'.op = "onmessage" /\ arrived' = arrived + 1 /\ last'.frame.turnComplete
          THEN /\ done = <<Transcript("user",
                                      Flat(recv["user"]) \o Flat(last'.frame.input), TRUE),
                           Transcript("model",
                                      Flat(recv["model"]) \o Flat(last'.frame.output), TRUE)>>
               /\ emitted'[Len(emitted')] = done[2]
               /\ emitted'[Len(emitted') - 1] = done[1]
               /\ currentInputTranscription' = <<>>
               /\ currentOutputTranscription' = <<>>
          ELSE done = <<>>
    ]_vars

\* C4 witness: a turn-complete whose frame carries the user's only delta,
\* the model having produced nothing.
C4_Witness ==
  /\ last.op = "onmessage"
  /\ last.frame.turnComplete
  /\ emitted = <<Transcript("user", <<"b", "a">>, FALSE),
                 Transcript("user", <<"b", "a">>, TRUE),
                 Transcript("model", <<>>, TRUE)>>
  /\ currentInputTranscription = <<>>

\* C5: after a turn-complete, the first delta of a role is reported alone:
\* nothing accumulated before the turn-complete is part of the payload.
C5_FreshAfterTurnComplete ==
  [][\A r \in Roles :
       (/\ turns > 0
        /\ recv[r] = <<>>
        /\ last'.op = "onmessage"
        /\ arrived' = arrived + 1
        /\ PartOf(last'.frame, r) # <<>>) =>
          \A i \in DOMAIN emitted' :
            (emitted'[i].cb = "transcript" /\ emitted'[i].role = r) =>
              emitted'[i].text = PartOf(last'.frame, r)[1]
    ]_vars

\* C5 witness: a role that had text finalized by a turn-complete reports its
\* next delta alone.
C5_Witness ==
  /\ turns > 0
  /\ finalized["user"] = <<"a", "b">>
  /\ last.op = "onmessage"
  /\ ~last.frame.turnComplete
  /\ emitted = <<Transcript("user", <<"b">>, FALSE)>>

\* C6: a close event on an active manager makes exactly one status
\* callback: 'reconnecting' for 1006, 1011 and 1001, 'closed' for any other
\* code, never 'error'.
C6_CloseWhileActive ==
  [][\A c \in CloseCodes :
       (isActive /\ OnClose(c)) =>
          emitted' = <<Status(IF c \in {1006, 1011, 1001} THEN "reconnecting" ELSE "closed")>>
    ]_vars

\* C6 witness: an open session was closed by the remote with a retryable
\* code.
C6_Witness ==
  /\ last.op = "onclose"
  /\ last.wasActive
  /\ last.from = "open"
  /\ emitted = <<Status("reconnecting")>>

\* C7: a close event that arrives after the caller's stopAll makes no
\* callback, whatever its code.
C7_CloseAfterStopIsSilent ==
  [][\A c \in CloseCodes : (stopped /\ OnClose(c)) => emitted' = <<>>]_vars

\* C7 witness: the close event of the stream that stopAll itself closed.
C7_Witness ==
  /\ last.op = "onclose"
  /\ last.from = "closing"
  /\ stopped
  /\ emitted = <<>>

\* C8: once an interruption has been handled, no source made from a chunk
\* that arrived before it is playing or scheduled, and right after the
\* interruption the active set is empty and the cursor is zero.
C8_InterruptionSilencesEarlierChunks ==
  /\ \A i \in DOMAIN handles :
       handles[i].arrival < intrAt => handles[i].st # "started"
  /\ InterruptStep => (sources = {} /\ nextStartTime = 0)

\* C9: the cursor never decreases except in a step that runs the
\* interruption block, which sets it to zero.
C9_CursorMonotone ==
  [][/\ nextStartTime' >= nextStartTime \/ InterruptStep'
     /\ InterruptStep' => nextStartTime' = 0
    ]_vars

\* C9 witness: an interruption reset a cursor that an earlier chunk had
\* advanced.
C9_Witness ==
  /\ intrAt > 0
  /\ \E i \in DOMAIN handles : handles[i].st = "stopped" /\ handles[i].dur > 0
  /\ nextStartTime = 0
  /\ InterruptStep

\* C10: every source is started at max(cursor, device clock) as read when
\* source.start is called, so never earlier than the device clock, and the
\* cursor then equals the start time plus the buffer's duration.
C10_StartAtMaxOfCursorAndClock ==
  /\ \A i \in DOMAIN handles : handles[i].start >= handles[i].clockAt
  /\ (last.op = "scheduled" /\ ~last.interrupted) =>
       nextStartTime = handles[Len(handles)].start + handles[Len(handles)].dur

\* When a started source begins to sound: a start time behind the device
\* clock means "now".
BeginTime(h) == Max(h.start, h.clockAt)

\* C11: the sources of the active set were made in arrival order, each is
\* scheduled no earlier than the end of the one before it, and the
\* intervals in which two of them sound never overlap.
C11_GaplessOrderedPlayback ==
  \A i, j \in sources :
    i < j =>
      /\ handles[i].arrival < handles[j].arrival
      /\ handles[j].start >= handles[i].start + handles[i].dur
      /\ BeginTime(handles[j]) >= EndTime(handles[i])

\* C12: a frame is never handled while the handling of an earlier frame is
\* suspended at the decode: right after a frame's handler has run, no call
\* for an earlier frame is pending.
C12_FrameHandledBeforeNext ==
  last.op = "onmessage" =>
    \A i \in DOMAIN pending : pending[i].arrival = arrived

\* C13: once the caller has replaced an instance (stopAll on it, then a new
\* instance), the replaced instance holds no open stream and no running
\* microphone track. Instances share no field, so the replaced instance
\* runs on as this instance does after StopAll.
C13_ReplacedInstanceHoldsNothing ==
  stopped => (stream # "open" /\ ~micLive)

\* The last step was the one in which connect failed.
SetupFailed ==
  /\ pc = "failed"
  /\ last.op \in {"connect", "resumeIn", "resumeOut", "getUserMedia", "handshakeReject"}

\* C14: when connect fails during setup it reports 'error', and from then on
\* the instance has no open audio context, no running microphone track and
\* no open stream.
C14_SetupFailureLeavesNothing ==
  /\ SetupFailed => \E i \in DOMAIN emitted : emitted[i] = Status("error")
  /\ (pc = "failed" /\ ~stopped) =>
       /\ ~Open(audioContext)
       /\ ~Open(outAudioContext)
       /\ ~micLive
       /\ stream \notin {"connecting", "open"}

\* C15: stopAll on a manager with an open session cancels the keep-alive
\* timer, stops every member of the active set and empties it, drops the
\* capture node, stops the microphone tracks, closes the stream, nulls the
\* session handle and closes both audio contexts.
C15_StopAllReleasesEverything ==
  [][(session /\ stream = "open" /\ StopAll) =>
       /\ ~keepAliveInterval'
       /\ sources' = {}
       /\ \A i \in sources : handles'[i].st = "stopped"
       /\ ~scriptProcessor'
       /\ ~micStream'
       /\ ~micLive'
       /\ stream' = "closing"
       /\ ~session'
       /\ audioContext' = "closed"
       /\ outAudioContext' = "closed"
    ]_vars

\* C15 witness: stopAll on an open session that was playing a chunk and
\* capturing the microphone.
C15_Witness ==
  /\ last.op = "stopAll"
  /\ stream = "closing"
  /\ intrAt = 0
  /\ \E i \in DOMAIN handles : handles[i].st = "stopped"
  /\ ~micLive
  /\ ~session
  /\ ~keepAliveInterval
  /\ audioContext = "closed"

\* C16: a stopAll that directly follows a stopAll changes nothing: the flag
\* stays false, and there is still no timer, no active source, no capture
\* node, no microphone stream and no session, and no device or stream is
\* touched again.
C16_StopAllIdempotent ==
  [][(last.op = "stopAll" /\ StopAll) =>
       /\ UNCHANGED <<mgrVars, stream, micLive, handles>>
       /\ ~isActive'
       /\ ~keepAliveInterval'
       /\ sources' = {}
       /\ ~scriptProcessor'
       /\ ~micStream'
       /\ ~session'
    ]_vars

\* C16 witness: two stopAll calls in succession; the first one released an
\* open session.
C16_Witness ==
  /\ last.op = "stopAll"
  /\ last.again
  /\ stream = "closing"
  /\ audioContext = "closed"
  /\ ~isActive
  /\ ~micStream

\* C17: when one release step of stopAll fails, stopAll raises nothing and
\* has performed every other release step: the flag is false, the timer is
\* cancelled, the set is empty and, unless it is the failed step, the
\* capture node is dropped, the microphone is stopped, the session handle is
\* null and the contexts are closed.
C17_ReleaseContinuesPastFailure ==
  last.op = "stopAllFailing" =>
    /\ ~last.raised
    /\ ~isActive
    /\ ~keepAliveInterval
    /\ sources = {}
    /\ last.failed # "disconnect" => ~scriptProcessor
    /\ last.failed # "track" => (~micStream /\ ~micLive)
    /\ last.failed # "close" => ~session
    /\ last.failed # "context" => ~Open(audioContext)
    /\ ~Open(outAudioContext)

\* C18: a window is passed to the stream only if the manager was active
\* when the window was captured and when its send was dispatched, and the
\* stream was open then; a window captured or dispatched while the manager
\* is inactive is discarded: it is never sent and waits in no queue.
C18_SendOnlyWhileActive ==
  /\ \A i \in DOMAIN sentWindows :
       /\ sentWindows[i].capturedActive
       /\ sentWindows[i].dispatchedActive
       /\ sentWindows[i].on = "open"
  /\ \A w \in droppedWindows :
       /\ \A i \in DOMAIN sentWindows : sentWindows[i].id # w
       /\ \A i \in DOMAIN thens : thens[i].id # w
  /\ (last.op = "then" /\ ~last.wasActive) => last.window \in droppedWindows
  /\ (last.op = "audioprocess" /\ ~isActive) => last.window \in droppedWindows

\* C18 witness: the first window was sent; the second was captured while
\* the manager was active and discarded because stopAll ran before its
\* send was dispatched.
C18_Witness ==
  /\ Len(sentWindows) = 1
  /\ sentWindows[1].id = 1
  /\ last.op = "then"
  /\ last.window = 2
  /\ ~last.wasActive
  /\ droppedWindows = {2}
  /\ stopped

\* The oldest suspended handleMessage call holds a chunk that cannot be
\* decoded.
BadChunk == pending # <<>> /\ ~decodeAudioData(Head(pending).len, 1).ok

\* C19: when the decode of a chunk fails, no source is created or added to
\* the active set, the flag, the stream and the devices are untouched, and
\* the sources are those the frame would have left without its audio part:
\* stopped and removed if the frame carries the interruption marker, and
\* otherwise, like the cursor, as they were.
C19_BadChunkIsSkipped ==
  [][\A r \in BOOLEAN :
       (BadChunk /\ DecodeResume(r)) =>
          /\ Len(handles') = Len(handles)
          /\ sources' \subseteq sources
          /\ UNCHANGED <<isActive, session, stream, audioContext, outAudioContext,
                         micStream, micLive, scriptProcessor, keepAliveInterval>>
          /\ IF Head(pending).interrupted
               THEN /\ handles' = StopSources(handles, sources)
                    /\ sources' = {}
               ELSE UNCHANGED <<handles, sources, nextStartTime>>
    ]_vars

\* The number of 'error' status callbacks in a sequence of callbacks.
Errors(cbs) == Cardinality({i \in DOMAIN cbs : cbs[i] = Status("error")})

\* The step is a setup failure of connect: the credential is missing, a
\* resume() is rejected, the microphone is denied or the handshake is
\* rejected.
SetupFailure ==
  \/ \E h \in Histories : Connect(h, FALSE)
  \/ ResumeIn(FALSE)
  \/ ResumeOut(FALSE)
  \/ GetUserMedia(FALSE)
  \/ HandshakeReject

\* C20: a setup failure of connect makes exactly one 'error' callback,
\* rejects connect's promise and leaves the flag false, for good; once
\* connect has returned normally nothing rejects its promise.
C20_SetupFailureReportedOnce ==
  [][/\ SetupFailure => (Errors(emitted') = 1 /\ pc' = "failed" /\ ~isActive')
     /\ pc = "failed" => (pc' = "failed" /\ ~isActive')
     /\ pc = "done" => pc' = "done"
    ]_vars

\* C20 witness: the microphone was denied: one 'error' callback, the
\* promise rejected, the flag false, both contexts created before.
C20_Witness ==
  /\ last.op = "getUserMedia"
  /\ pc = "failed"
  /\ emitted = <<Status("error")>>
  /\ ~isActive
  /\ ~micStream
  /\ audioContext = "running"

\* C21: an error event of the stream on an active manager makes exactly one
\* 'error' status callback and changes no field, device or stream: the flag,
\* the session handle, the sources, the cursor, the transcript buffers and
\* the timer are as before, and no stream is opened.
C21_StreamErrorOnlyReports ==
  [][(isActive /\ OnError) =>
       /\ emitted' = <<Status("error")>>
       /\ UNCHANGED <<mgrVars, envVars, capVars>>
    ]_vars

\* C21 witness: an error event on an open, active session that has a
\* source playing.
C21_Witness ==
  /\ last.op = "onerror"
  /\ last.wasActive
  /\ emitted = <<Status("error")>>
  /\ isActive
  /\ session
  /\ stream = "open"
  /\ keepAliveInterval
  /\ sources # {}

\* The sources that were started and have neither ended nor been stopped.
Playing == {i \in DOMAIN handles : handles[i].st = "started"}

\* C25: the active set holds exactly the sources that were started and have
\* neither ended nor been stopped, and it is empty at every moment after the
\* caller's stopAll.
C25_ActiveSetIsPlayingSet ==
  /\ sources = Playing
  /\ stopped => sources = {}

\* C24: while the session is open and the capture context is suspended, a
\* keep-alive tick eventually requests its resume (or the session is no
\* longer open); the timer exists only on an instance that has seen its
\* open event and no stopAll since, and it is created only by the open
\* event, which an instance sees once.
C24_KeepAliveResumesSuspended ==
  /\ [](keepAliveInterval => (pc = "done" /\ isActive /\ session))
  /\ [][(keepAliveInterval' /\ ~keepAliveInterval) => (pc = "handshake" /\ pc' = "done")]_vars
  /\ (session /\ stream = "open" /\ audioContext = "suspended")
       ~> ((last.op = "keepAlive" /\ last.resume) \/ ~(session /\ stream = "open"))

\* C24 witness: a tick found the capture context of an open session
\* suspended and resumed it.
C24_Witness ==
  /\ last.op = "keepAlive"
  /\ last.resume
  /\ audioContext = "running"
  /\ session
  /\ stream = "open"
  /\ keepAliveInterval

IsText(c) == c \in {"a", "b"}

\* C23: the continuity text is empty exactly when the history is empty, and
\* the turn texts in it are those of the last N turns (of all turns when
\* there are fewer), in the order of the history.
C23_RecentTurnsOnly ==
  last.op = "memoryPrompt" =>
    LET n == Len(callerHistory)
        k == IF n < last.turns THEN n ELSE last.turns
    IN /\ (memoryPrompt = <<>>) <=> (callerHistory = <<>>)
       /\ SelectSeq(memoryPrompt, IsText)
            = Flat([i \in 1..k |-> callerHistory[n - k + i].text])

\* C23 witness: of three turns a, b, a the text holds the last two, b then a.
C23_Witness ==
  /\ last.op = "memoryPrompt"
  /\ Len(callerHistory) = 3
  /\ callerHistory[1].text = <<"a">>
  /\ callerHistory[2].text = <<"b">>
  /\ callerHistory[3].text = <<"a">>
  /\ memoryPrompt = <<"[SYSTEM", "b", "|", "a", "]">>

\* C26: a retryable close of an open session, with a non-empty history held
\* by the orchestrator, is answered by exactly one connect call; the
\* 'reconnecting' status that connect reports as it starts does not make the
\* orchestrator call connect again. Stated over every handler: the calls to
\* connect that one event leads to number at most one.
C26_OneConnectPerClose == appLast.connects <= 1

\* The handlers in which a connection fails whenever they run, and those
\* that start a connection, which fails in them when the key is missing.
FailureOps == {"streamError", "setupFails", "rejectionCaught", "connectOverflows"}

RetryStartOps == {"timer", "userReconnect"}

\* A step in which a connection fails while the counter is at the limit
\* and the user has not ended the call.
FailsAtLimit ==
  /\ retryCount = RetryLimit
  /\ \/ appLast'.op \in FailureOps /\ ~isUserEndingCall
     \/ appLast'.op \in RetryStartOps /\ ~appLast'.raised /\ rejected' # <<>>

\* C27: the retry counter never exceeds 3; between two resets of it at most 3
\* retries are started, each RetryDelay ms after its failure; a failure met
\* with the counter at 3 starts no retry, leaves the counter at 3 and shows
\* the error message (when the failure is a connect call that ran out of
\* stack, the message is shown by the catch clause that its rejection
\* reaches).
C27_RetriesBounded ==
  /\ [](/\ retryCount <= RetryLimit
        /\ armed <= RetryLimit
        /\ \A k \in DOMAIN timers : timers[k].delay = RetryDelay)
  /\ [][FailsAtLimit =>
          /\ retryCount' = RetryLimit
          /\ Len(timers') <= Len(timers)
          /\ appLast'.retries = 0
          /\ IF appLast'.op = "connectOverflows" THEN rejected' # <<>> ELSE errorMessage']_vars

\* C27 witness: three retries have been started since the counter was
\* reset, the stream's error event has met the counter at 3, and the
\* message is shown with no fourth retry.
C27_Witness ==
  /\ appLast.op = "streamError"
  /\ appLast.retries = 0
  /\ ~isUserEndingCall
  /\ retryCount = RetryLimit
  /\ armed = RetryLimit
  /\ errorMessage

\* C28: once the user has ended the call, no connect call is made and no
\* manager instance is created until the user starts a call again.
C28_NoConnectAfterEnd == ~appLast.afterEnd

\* C29: a healthy open session is stopped by the orchestrator only for a
\* user action or for a status or retry of that same session.
C29_StoppedForOwnCause ==
  appLast.tornDown # 0 =>
    \/ appLast.op \in {"userStart", "userReconnect", "endCall"}
    \/ appLast.cause = appLast.tornDown

\* C30: one failure of a session increments the retry counter at most once
\* and starts at most one replacement attempt.
C30_OneRetryPerFailure == appLast.retries <= 1

\* C37: with the API key missing, connect reports its first status and then
\* 'error', and it creates no audio context, asks for no microphone and
\* opens no stream.
C37_MissingKeyOpensNothing ==
  (last.op = "connect" /\ ~last.hasKey) =>
    /\ Len(emitted) = 2
    /\ emitted[1] \in {Status("connecting"), Status("reconnecting")}
    /\ emitted[2] = Status("error")
    /\ audioContext = "null"
    /\ outAudioContext = "null"
    /\ ~micStream
    /\ ~micLive
    /\ stream = "none"
    /\ ~session

C37_Witness ==
  /\ last.op = "connect"
  /\ ~last.hasKey
  /\ last.history > 0
  /\ pc = "failed"
  /\ Len(emitted) = 2

\* C36: when the close event of an active session is reported to the caller
\* ('reconnecting' or 'closed'), the instance is already released: at the
\* moment the callback runs, the liveness flag is false, the session handle
\* is null, no playback handle is held and the keep-alive timer is
\* cancelled, and they are still so when the handler returns.
C36_ReleasedBeforeNotified ==
  (last.op \in {"onclose", "oncloseFailing"} /\ emitted # <<>>) =>
    /\ emitted[1].status \in {"reconnecting", "closed"}
    /\ ~last.atCallback.isActive
    /\ ~last.atCallback.session
    /\ last.atCallback.sources = {}
    /\ ~last.atCallback.keepAliveInterval
    /\ Held = last.atCallback

\* C36 witness: an open, active session that was playing and had its
\* keep-alive timer running is closed with a retryable code and
\* 'reconnecting' is reported.
C36_Witness ==
  /\ last.op = "onclose"
  /\ last.wasActive
  /\ last.from = "open"
  /\ emitted = <<Status("reconnecting")>>
  /\ handles # <<>>
  /\ \E i \in DOMAIN handles : handles[i].st = "stopped"
  /\ ~last.atCallback.isActive

\* C35: the windows sent on the stream are a subsequence of the captured
\* windows in capture order: none is sent twice and none is sent before a
\* window captured earlier that is also sent.
C35_SentInCaptureOrder ==
  /\ \A j, k \in DOMAIN sentWindows : j < k => sentWindows[j].id < sentWindows[k].id
  /\ \A j \in DOMAIN sentWindows : sentWindows[j].id \in 1..windows

C35_Witness ==
  /\ Len(sentWindows) = 2
  /\ sentWindows[1].id + 1 < sentWindows[2].id
  /\ sentWindows[1].id + 1 \in droppedWindows

\* The callbacks of a step hold status 'open'.
ReportsOpen(cbs) == \E k \in DOMAIN cbs : cbs[k] = Status("open")

\* C34: the first callback of a connect call is 'connecting' for an empty
\* history and 'reconnecting' otherwise; nothing is reported before it;
\* 'open' is reported only while the instance is active and at most once
\* (by the one step that ends the handshake, which never recurs).
C34_StatusOrder ==
  /\ [](pc = "idle" => emitted = <<>>)
  /\ [](last.op = "connect" =>
          /\ emitted # <<>>
          /\ emitted[1] = Status(IF last.history > 0 THEN "reconnecting" ELSE "connecting"))
  /\ [](ReportsOpen(emitted) => last.op = "onopen" /\ isActive /\ emitted = <<Status("open")>>)
  /\ [][ReportsOpen(emitted') => pc = "handshake" /\ pc' = "done"]_vars
  /\ [][pc = "done" => pc' = "done"]_vars

C34_Witness ==
  /\ last.op = "onopen"
  /\ ReportsOpen(emitted)
  /\ pc = "done"
  /\ stream = "open"

\* The turns of the isComplete=true callbacks among cbs, in order.
RECURSIVE CompleteTurns(_)
CompleteTurns(cbs) ==
  IF cbs = <<>> THEN <<>>
  ELSE (IF Head(cbs).isComplete
          THEN <<[role |-> Head(cbs).role, text |-> Head(cbs).text]>>
          ELSE <<>>) \o CompleteTurns(Tail(cbs))

\* C33: the history grows only by the isComplete=true callbacks, one turn
\* for each, so a turn-complete appends the user's turn and then the
\* model's, whatever their texts; isComplete=false callbacks leave the
\* history as it is; after a turn-complete the current-speech slot is empty.
C33_HistoryGrowsByCompleteTurns ==
  [][/\ Len(history') > Len(history) => appLast'.op = "transcribes"
     /\ appLast'.op = "transcribes" =>
          /\ history' = history \o CompleteTurns(appLast'.cbs)
          /\ Len(history') - Len(history) \in {0, 2}
          /\ Len(history') > Len(history) =>
               /\ history'[Len(history) + 1].role = "user"
               /\ history'[Len(history) + 2].role = "model"
               /\ currentSpeech' = NoSpeech]_vars

\* C33 witness: a second turn-complete, onto a history that holds the two
\* turns of the first: the frame brings a second delta of the user's speech
\* and the end of the turn, and the history takes the user's "aa" and the
\* model's empty turn after the two it held.
C33_Witness ==
  /\ appLast.op = "transcribes"
  /\ Len(appLast.cbs) = 3
  /\ Len(history) = 4
  /\ history[2].text # <<>>
  /\ history[3] = [role |-> "user", text |-> <<"a", "a">>]
  /\ history[4] = [role |-> "model", text |-> <<>>]
  /\ currentSpeech = NoSpeech

\* C31: from the moment the user ends the call until the user starts one
\* again, the call status is 'idle', isCalling is false, and the error
\* message, the history and the current-speech slot stay cleared.
C31_IdleAfterEnd ==
  userEnded =>
    /\ callStatus = "idle"
    /\ ~isCalling
    /\ ~errorMessage
    /\ history = <<>>
    /\ currentSpeech = NoSpeech

\* A step in which the orchestrator reconnects.
Reconnects == appLast.connects > 0 /\ appLast.op # "userStart"

\* C32: the history is emptied only by a fresh start and by ending the
\* call; a reconnect, automatic or manual, keeps the recorded turns and
\* passes that same sequence to the new connect call.
C32_HistoryKeptAcrossReconnect ==
  /\ [][history' # history /\ appLast'.op # "transcribes"
          => history' = <<>> /\ appLast'.op \in {"userStart", "endCall"}]_vars
  /\ [](Reconnects => appLast.passed = history)

====
